---- MODULE Spec2Model ----
(***************************************************************************)
(* Model of michalsta/mmapped_vector: the allocator family                 *)
(* (src/allocators.h), the vector built on it (src/mmapped_vector.h,       *)
(* second translation unit, lines 194-633) and the concurrent append       *)
(* protocol of the thread_safe instantiation (store_at_index, compiled     *)
(* with USE_INELEGANT_IMPLEMENTATION == 1).                                *)
(*                                                                         *)
(* One set of variables carries one vector object.  Several                *)
(* specifications drive it:                                                *)
(*   Spec        serial vector, all public operations, all backends        *)
(*   AppendSpec  serial vector, appends only, then drop and reopen         *)
(*   FileSpec    FileMap vector constructed on a file found on the disk    *)
(*   CtorSpec    FileSpec where the system may refuse a call of the        *)
(*               constructor                                               *)
(*   MoveSpec    serial vector with at(), move construction / assignment   *)
(*   GrowSpec    serial vector resized to some size, then reserve          *)
(*   ConcSpec    thread_safe vector, NThreads threads calling push_back    *)
(*   ConcFairSpec  ConcSpec with weak fairness of every thread             *)
(*   ConcOpsSpec ConcSpec plus the other public operations                 *)
(*   ConcFailSpec, ConcFailFairSpec  ConcSpec where resize() may fail      *)
(*   EitherSpec  ConcSpec with either variant of store_at_index            *)
(*   SoloSpec    thread_safe vector driven by a single thread              *)
(*   WideSpec    GrowSpec with every size_t value as the reserve argument  *)
(*   AssignSpec  FileMap vector overwritten by a move assignment           *)
(*   OwnerSpec   the two vectors of a move up to the end of their scope    *)
(*   CrashSpec   FileMap vector whose process ends while it is mapped      *)
(***************************************************************************)
EXTENDS Integers, Sequences, FiniteSets, Bags, TLC

\* ------------------------------------------------------------------------
\* Bounds of the model
\* ------------------------------------------------------------------------
\* number of writer threads of the concurrent specifications
NThreads == 2

\* number of push_back calls of each writer thread
PushesPerThread == 2

\* width of size_t in the model: arithmetic on element counts is modulo 2^SizeBits
SizeBits == 8

\* sizeof(T) of the element type the vector is instantiated with
SizeofT == 2048

\* largest number of elements the system can allocate; larger requests fail
MaxCapacity == 64

\* ------------------------------------------------------------------------
\* Program constants
\* ------------------------------------------------------------------------
\* getpagesize()
page_size == 4096

\* capacity chosen by MallocAllocator() and the floor of MmapFileAllocator()
MinCapacity == 16

\* increase_capacity starts from MinCapacity when capacity <= SmallCapacity
SmallCapacity == 8

SizeMod == 2 ^ SizeBits

Threads == 1 .. NThreads

\* content of memory that was never written (malloc / realloc growth)
Indet == -1

\* result of the doubling loop when it never terminates
Hang == -2

VARIABLES
    allocator,              \* [kind, ptr, capacity, backing_size, file_descriptor]
    mem,                    \* contents of the buffer allocator.ptr points to
    file,                   \* the file of the FileMap backend: [len, data]
    element_count,
    capacity_atomic,
    operations_in_progress,
    needed_capacity,
    mutex,                  \* 0 when free, else the thread that holds it
    pc,                     \* position of each writer thread
    index,                  \* push_back / store_at_index: index
    value,                  \* push_back / store_at_index: value
    current,                \* atomic_store_max: current
    new_capacity,           \* increase_capacity: new_capacity
    depth,                  \* nesting depth of store_at_index of each thread
    i,                      \* loop counter of each writer thread
    reserved,               \* history: the (index, value) of every push_back call, in fetch_add order
    crashed,                \* the process died (segfault, std::terminate, endless loop)
    steps,                  \* number of public operations called so far
    last,                   \* the last public operation: [op, arg, threw]
    seed,                   \* which input sequence the appending caller produces
    moved,                  \* the second vector of a caller that moves: [a, m, count]
    open_fds,               \* the file descriptors that are open in the process
    variant,                \* which store_at_index was compiled: "inline" or "holder"
    views                   \* the buffer pointers installed and what each thread must observe: [epoch, published, seen]

vars == << allocator, mem, file, element_count, capacity_atomic,
           operations_in_progress, needed_capacity, mutex, pc, index, value,
           current, new_capacity, depth, i, reserved, crashed, steps, last, seed, moved,
           open_fds, variant, views >>

allocVars == << allocator, mem, file >>
atomicVars == << capacity_atomic, operations_in_progress, needed_capacity, mutex >>
threadVars == << pc, index, value, current, new_capacity, depth, i, reserved, views >>
callVars == << steps, last, seed, moved, open_fds, variant >>

\* ------------------------------------------------------------------------
\* Allocator<T>
\* ------------------------------------------------------------------------
Max(a, b) == IF a >= b THEN a ELSE b

\* what freshly exposed memory holds: zero pages for mappings, anything for the heap
Fill(kind) == IF kind = "Malloc" THEN Indet ELSE 0

\* a growth that hands out a new buffer without copying the old elements
Moved_NoCopy(old, n, fill) == [k \in 0 .. n - 1 |-> fill]

\* the buffer after realloc / mremap: the first min(old, new) elements are kept
Moved(old, n, fill) == [k \in 0 .. n - 1 |-> IF k \in DOMAIN old THEN old[k] ELSE fill]

\* the while loop of increase_capacity
RECURSIVE Doubling(_, _)
Doubling(c, needed) ==
    IF ~(c < needed) THEN c
    ELSE IF c = 0 THEN Hang
    ELSE Doubling((c * 2) % SizeMod, needed)

\* an increase_capacity without the doubling loop
NewCapacity_NoDoubling(cap, capacity_needed) ==
    IF cap <= SmallCapacity THEN MinCapacity ELSE cap

\* Allocator::increase_capacity: the capacity passed to resize()
NewCapacity(cap, capacity_needed) ==
    Doubling(IF cap <= SmallCapacity THEN MinCapacity ELSE cap, capacity_needed)

\* an increase_capacity that also grows a buffer of exactly the capacity needed
NoGrowthNeeded_Strict(cap, capacity_needed) == cap > capacity_needed

\* Allocator::increase_capacity returns without calling resize()
NoGrowthNeeded(cap, capacity_needed) == cap >= capacity_needed


\* an ftruncate that leaves the file one element longer than asked
Truncated_Long(f, n) ==
    [len  |-> (n + 1) * SizeofT,
     data |-> [k \in 0 .. n - 1 |->
                 IF k * SizeofT < f.len /\ k \in DOMAIN f.data THEN f.data[k] ELSE 0]]

\* the file after ftruncate(fd, n * sizeof(T)): cut, or extended with zero bytes
Truncated(f, n) ==
    [len  |-> n * SizeofT,
     data |-> [k \in 0 .. n - 1 |->
                 IF k * SizeofT < f.len /\ k \in DOMAIN f.data THEN f.data[k] ELSE 0]]

\* an outcome of a call: the allocator, the memory and the file it leaves,
\* whether it threw, and whether the process died in it
Outcome(a, m, f, threw, dead) == [a |-> a, m |-> m, f |-> f, threw |-> threw, dead |-> dead]

\* MallocAllocator::resize: realloc(ptr, new_capacity * sizeof(T))
MallocResize(a, m, f, n) ==
    IF n = a.capacity THEN { Outcome(a, m, f, FALSE, FALSE) }
    ELSE IF a.ptr = "freed" THEN
        \* realloc of a block that was already released: undefined
        { Outcome(a, m, f, FALSE, TRUE),
          IF n > MaxCapacity
            THEN Outcome(a, m, f, TRUE, FALSE)
            ELSE Outcome([a EXCEPT !.ptr = "valid", !.capacity = n],
                         [k \in 0 .. n - 1 |-> Indet], f, FALSE, FALSE) }
    ELSE IF n > MaxCapacity THEN { Outcome(a, m, f, TRUE, FALSE) }
    ELSE IF n = 0 /\ a.ptr = "valid" THEN
        \* realloc(ptr, 0) either frees the block and returns NULL or
        \* returns a minimal block, as the C library chooses
        { Outcome([a EXCEPT !.ptr = "freed"], m, f, TRUE, FALSE),
          Outcome([a EXCEPT !.capacity = 0], << >>, f, FALSE, FALSE) }
    ELSE { Outcome([a EXCEPT !.ptr = "valid", !.capacity = n],
                   Moved(m, n, Indet), f, FALSE, FALSE) }

\* MmapAllocator::resize: mremap(ptr, capacity * sizeof(T), new_capacity * sizeof(T), MREMAP_MAYMOVE)
MmapResize(a, m, f, n) ==
    IF n = a.capacity THEN { Outcome(a, m, f, FALSE, FALSE) }
    ELSE IF n = 0 \/ a.capacity = 0 \/ a.ptr # "valid" \/ n > MaxCapacity
        THEN { Outcome(a, m, f, TRUE, FALSE) }
    ELSE { Outcome([a EXCEPT !.capacity = n], Moved(m, n, 0), f, FALSE, FALSE) }

\* the page of element k lies within the pages that hold the file
InFilePages(f, k) == f.len > 0 /\ (k * SizeofT) \div page_size <= (f.len - 1) \div page_size

\* a mapping that stays in place while its file is cut to g: the pages
\* beyond the end of the file are gone, the tail of the last page is zeroed
StillMapped(m, g) ==
    [k \in DOMAIN m |-> IF k * SizeofT < g.len THEN m[k]
                        ELSE IF InFilePages(g, k) THEN 0 ELSE Indet]

\* MmapFileAllocator::resize: ftruncate, then mremap
MmapFileResize(a, m, f, n) ==
    IF n = a.capacity THEN { Outcome(a, m, f, FALSE, FALSE) }
    ELSE IF a.file_descriptor = -1 THEN { Outcome(a, m, f, TRUE, FALSE) }
    ELSE IF n = 0 \/ a.capacity = 0 \/ a.ptr # "valid"
        THEN { Outcome(a, StillMapped(m, Truncated(f, n)), Truncated(f, n), TRUE, FALSE) }
    ELSE IF n > MaxCapacity
        \* no room: ftruncate fails, or ftruncate succeeds and mremap fails
        THEN { Outcome(a, m, f, TRUE, FALSE),
               Outcome(a, StillMapped(m, Truncated(f, n)), Truncated(f, n), TRUE, FALSE) }
    ELSE { Outcome([a EXCEPT !.capacity = n],
                   Truncated(f, n).data, Truncated(f, n), FALSE, FALSE) }

\* virtual T* resize(size_t new_size)
ResizeOutcomes(a, m, f, n) ==
    CASE a.kind = "Malloc" -> MallocResize(a, m, f, n)
      [] a.kind = "Mmap"   -> MmapResize(a, m, f, n)
      [] a.kind = "File"   -> MmapFileResize(a, m, f, n)

\* Allocator::increase_capacity(capacity_needed); a doubling loop that never
\* ends leaves the caller hung, which is reported as a dead process
IncreaseCapacityOutcomes(a, m, f, capacity_needed) ==
    IF NoGrowthNeeded(a.capacity, capacity_needed) THEN { Outcome(a, m, f, FALSE, FALSE) }
    ELSE IF NewCapacity(a.capacity, capacity_needed) = Hang
        THEN { Outcome(a, m, f, FALSE, TRUE) }
    ELSE ResizeOutcomes(a, m, f, NewCapacity(a.capacity, capacity_needed))

\* MallocAllocator::MallocAllocator()
MallocAllocator ==
    [kind |-> "Malloc", ptr |-> "valid", capacity |-> MinCapacity,
     backing_size |-> 0, file_descriptor |-> -1]

\* MmapAllocator::MmapAllocator()
MmapAllocator ==
    [kind |-> "Mmap", ptr |-> "valid", capacity |-> page_size \div SizeofT,
     backing_size |-> 0, file_descriptor |-> -1]

\* the buffer a constructor obtains
FreshMem(a) == [k \in 0 .. a.capacity - 1 |-> Fill(a.kind)]

\* no file: the path does not exist
NoFile == [len |-> 0, data |-> << >>]

\* the caller has not declared a second vector
NoVector ==
    [a |-> [kind |-> "None", ptr |-> "null", capacity |-> 0,
            backing_size |-> 0, file_descriptor |-> -1],
     m |-> << >>, count |-> 0]

\* Allocator::get_capacity
get_capacity == allocator.capacity

\* MmappedVector::size and MmappedVector::capacity
size == element_count
capacity == get_capacity

\* a backing size that ignores the length of the file
get_backing_size_Zero(a) == 0

\* Allocator::get_backing_size / MmapFileAllocator::get_backing_size
get_backing_size(a) == IF a.kind = "File" THEN a.backing_size ELSE 0

\* a store through ptr[++element_count]: one slot too far
StoredMem_Next(m, k, v) == [m EXCEPT ![IF (k + 1) \in DOMAIN m THEN k + 1 ELSE k] = v]

\* the effect of allocator.ptr[k] = v: the element store, seen also through a shared file mapping
StoredMem(m, k, v) == [m EXCEPT ![k] = v]
StoredFile(a, f, k, v) ==
    IF a.kind = "File" /\ k \in DOMAIN f.data /\ k * SizeofT < f.len
        THEN [f EXCEPT !.data = [f.data EXCEPT ![k] = v]]
        ELSE f

\* what allocator.ptr[k] = v can do: [m, f, dead].  Inside the buffer the
\* store lands (for a shared file mapping also in the file; in the tail of
\* the last page of a shorter file only in memory; beyond it SIGBUS).
\* Outside the buffer, or through a released pointer, it is undefined: the
\* process dies or goes on with the buffer as it was.
StoreOutcomes(a, m, f, k, v) ==
    IF a.ptr = "valid" /\ k \in DOMAIN m /\ k < a.capacity
        THEN IF a.kind # "File" \/ k * SizeofT < f.len
                THEN { [m |-> StoredMem(m, k, v), f |-> StoredFile(a, f, k, v), dead |-> FALSE] }
             ELSE IF InFilePages(f, k)
                THEN { [m |-> StoredMem(m, k, v), f |-> f, dead |-> FALSE] }
             ELSE { [m |-> m, f |-> f, dead |-> TRUE] }
        ELSE { [m |-> m, f |-> f, dead |-> TRUE], [m |-> m, f |-> f, dead |-> FALSE] }

\* an allocator object that holds no buffer and no file
Unopened ==
    [kind |-> "File", ptr |-> "null", capacity |-> 0,
     backing_size |-> 0, file_descriptor |-> -1]

\* a constructor that maps the file whatever its length is
MmapFileOpen_Unchecked(f) ==
    LET bs == f.len \div SizeofT
        g  == IF bs < MinCapacity THEN Truncated(f, MinCapacity) ELSE f
    IN  Outcome([kind |-> "File", ptr |-> "valid",
                 capacity |-> IF bs < MinCapacity THEN MinCapacity ELSE bs,
                 backing_size |-> bs, file_descriptor |-> 3],
                g.data, g, FALSE, FALSE)

\* MmapFileAllocator::MmapFileAllocator(file_name) on a path whose file is f
\* (O_CREAT makes a missing file an empty one)
MmapFileOpen(f) ==
    IF f.len % SizeofT # 0
        THEN Outcome(Unopened, << >>, f, TRUE, FALSE)
        ELSE LET bs == f.len \div SizeofT
                 g  == IF bs < MinCapacity THEN Truncated(f, MinCapacity) ELSE f
             IN  Outcome([kind |-> "File", ptr |-> "valid",
                          capacity |-> IF bs < MinCapacity THEN MinCapacity ELSE bs,
                          backing_size |-> bs, file_descriptor |-> 3],
                         g.data, g, FALSE, FALSE)

\* the descriptor open() returns
NewFd == 3

\* the steps of the constructor of MmapFileAllocator at which the system can
\* refuse: open, fstat, ftruncate, mmap ("none": every call succeeds)
CtorFaults == { "none", "open", "fstat", "ftruncate", "mmap" }

\* a holder whose destructor leaves the descriptor open
RAIIClosed_Never(fds, fd) == fds

\* ~RAIIFileDescriptor: if (fd != -1) close(fd)
RAIIClosed(fds, fd) == IF fd # -1 THEN fds \ {fd} ELSE fds

\* RAIIFileDescriptor::release: hands the descriptor to the caller and
\* leaves the holder empty, so that its destructor closes nothing
RAIIRelease(fd) == [ret |-> fd, fd |-> -1]

\* a constructor that extends a short file before it checks the length
MmapFileCtor_TruncatesFirst(f, fault, fds) ==
    LET bs == f.len \div SizeofT
        g  == IF bs < MinCapacity THEN Truncated(f, MinCapacity) ELSE f
    IN  IF fault = "open"
            THEN [out |-> Outcome(Unopened, << >>, f, TRUE, FALSE),
                  fds |-> RAIIClosed(fds, -1)]
        ELSE IF fault = "fstat" \/ (fault = "ftruncate" /\ bs < MinCapacity)
            THEN [out |-> Outcome(Unopened, << >>, f, TRUE, FALSE),
                  fds |-> RAIIClosed(fds \cup {NewFd}, NewFd)]
        ELSE IF fault = "mmap" \/ f.len % SizeofT # 0
            THEN [out |-> Outcome(Unopened, << >>, g, TRUE, FALSE),
                  fds |-> RAIIClosed(fds \cup {NewFd}, NewFd)]
        ELSE [out |-> [MmapFileOpen(f) EXCEPT !.a.file_descriptor = RAIIRelease(NewFd).ret],
              fds |-> RAIIClosed(fds \cup {NewFd}, RAIIRelease(NewFd).fd)]

\* MmapFileAllocator::MmapFileAllocator(file_name) when the system refuses
\* at step fault: [out, fds], the outcome and the descriptors left open
\* once the constructor has returned or thrown (fds: those open before)
MmapFileCtor(f, fault, fds) ==
    LET bs == f.len \div SizeofT
        g  == IF bs < MinCapacity THEN Truncated(f, MinCapacity) ELSE f
    IN  IF fault = "open"
            THEN [out |-> Outcome(Unopened, << >>, f, TRUE, FALSE),
                  fds |-> RAIIClosed(fds, -1)]
        ELSE IF fault = "fstat" \/ f.len % SizeofT # 0
                \/ (fault = "ftruncate" /\ bs < MinCapacity)
            THEN [out |-> Outcome(Unopened, << >>, f, TRUE, FALSE),
                  fds |-> RAIIClosed(fds \cup {NewFd}, NewFd)]
        ELSE IF fault = "mmap"
            THEN [out |-> Outcome(Unopened, << >>, g, TRUE, FALSE),
                  fds |-> RAIIClosed(fds \cup {NewFd}, NewFd)]
        ELSE [out |-> [MmapFileOpen(f) EXCEPT !.a.file_descriptor = RAIIRelease(NewFd).ret],
              fds |-> RAIIClosed(fds \cup {NewFd}, RAIIRelease(NewFd).fd)]

\* close(fd) in self_close
Closed(fds, fd) == fds \ {fd}

\* a sync that does not record the element count
Sync_Ignored(a, used_elements) == a

\* Allocator::sync / MmapFileAllocator::sync(used_elements)
Sync(a, used_elements) ==
    IF a.kind = "File" THEN [a EXCEPT !.backing_size = used_elements] ELSE a

\* the allocator object after its buffer was released
Released(a) == [a EXCEPT !.ptr = "null", !.capacity = 0, !.backing_size = 0,
                         !.file_descriptor = -1]

\* ~MallocAllocator / ~MmapAllocator / ~MmapFileAllocator (self_close).
\* self_close is noexcept: an exception of resize() ends the process.
DestroyOutcomes(a, m, f) ==
    IF a.ptr = "null" THEN { Outcome(a, m, f, FALSE, FALSE) }
    ELSE IF a.kind = "Malloc" /\ a.ptr = "freed"
        THEN { Outcome(a, m, f, FALSE, TRUE), Outcome(Released(a), << >>, f, FALSE, FALSE) }
    ELSE IF a.kind = "File"
        THEN { IF r.threw \/ r.dead
                 THEN Outcome(r.a, r.m, r.f, FALSE, TRUE)
                 ELSE Outcome(Released(r.a), << >>, r.f, FALSE, FALSE)
               : r \in MmapFileResize(a, m, f, get_backing_size(a)) }
    ELSE { Outcome(Released(a), << >>, f, FALSE, FALSE) }

\* ------------------------------------------------------------------------
\* MmappedVector: the public operations whose code does not depend on
\* thread_safe, and the serial branch of push_back / emplace_back
\* ------------------------------------------------------------------------

\* a caller records the operation it has just made and the value it returned
Returned(op, arg, threw, ret) ==
    /\ steps' = steps + 1
    /\ last' = [op |-> op, arg |-> arg, threw |-> threw, ret |-> ret]

\* a caller records a call that returns no value
Called(op, arg, threw) == Returned(op, arg, threw, 0)

\* the state an allocator call leaves
Leaves(r) ==
    /\ allocator' = r.a
    /\ mem' = r.m
    /\ file' = r.f
    /\ crashed' = r.dead

\* if (element_count >= allocator.get_capacity()) allocator.increase_capacity(element_count + 1)
GrowForAppend(a, m, f, count) ==
    IF count >= a.capacity
        THEN IncreaseCapacityOutcomes(a, m, f, (count + 1) % SizeMod)
        ELSE { Outcome(a, m, f, FALSE, FALSE) }

\* push_back / emplace_back, thread_safe == false:
\* allocator.ptr[element_count++] = value after the growth
AppendOne(op, v) ==
    /\ ~crashed
    /\ \E r \in GrowForAppend(allocator, mem, file, element_count) :
          /\ allocator' = r.a
          /\ Called(op, v, r.threw)
          /\ IF r.threw \/ r.dead
               THEN /\ mem' = r.m
                    /\ file' = r.f
                    /\ crashed' = r.dead
                    /\ UNCHANGED element_count
               ELSE \E w \in StoreOutcomes(r.a, r.m, r.f, element_count, v) :
                    /\ mem' = w.m
                    /\ file' = w.f
                    /\ crashed' = w.dead
                    /\ element_count' = IF w.dead THEN element_count
                                        ELSE (element_count + 1) % SizeMod
    /\ UNCHANGED << atomicVars, threadVars, seed, moved, open_fds, variant >>

\* MmappedVector::push_back(value), thread_safe == false
PushBack(v) == AppendOne("push_back", v)

\* MmappedVector::emplace_back(args...), thread_safe == false
EmplaceBack(v) == AppendOne("emplace_back", v)

\* the count after element_count--
Decremented(count) == (count - 1) % SizeMod

\* MmappedVector::pop_back
PopBack ==
    /\ ~crashed
    /\ element_count' = Decremented(element_count)
    /\ Called("pop_back", 0, FALSE)
    /\ UNCHANGED << allocVars, atomicVars, threadVars, crashed, seed, moved, open_fds, variant >>

\* a clear that keeps the element count
Cleared_Kept(count) == count

\* the count after element_count = 0
Cleared(count) == 0

\* MmappedVector::empty
empty == element_count = 0

\* MmappedVector::clear
Clear ==
    /\ ~crashed
    /\ element_count' = Cleared(element_count)
    /\ Called("clear", 0, FALSE)
    /\ UNCHANGED << allocVars, atomicVars, threadVars, crashed, seed, moved, open_fds, variant >>

\* MmappedVector::resize(new_size)
ResizeTo(n) ==
    /\ ~crashed
    /\ \E r \in ResizeOutcomes(allocator, mem, file, n) :
          /\ Leaves(r)
          /\ Called("resize", n, r.threw)
          /\ element_count' = IF r.threw \/ r.dead THEN element_count ELSE n
    /\ UNCHANGED << atomicVars, threadVars, seed, moved, open_fds, variant >>

\* MmappedVector::reserve(new_capacity)
Reserve(n) ==
    /\ ~crashed
    /\ \E r \in IncreaseCapacityOutcomes(allocator, mem, file, n) :
          /\ Leaves(r)
          /\ Called("reserve", n, r.threw)
    /\ UNCHANGED << element_count, atomicVars, threadVars, seed, moved, open_fds, variant >>

\* MmappedVector::shrink_to_fit
ShrinkToFit ==
    /\ ~crashed
    /\ \E r \in ResizeOutcomes(allocator, mem, file, element_count) :
          /\ Leaves(r)
          /\ Called("shrink_to_fit", 0, r.threw)
    /\ UNCHANGED << element_count, atomicVars, threadVars, seed, moved, open_fds, variant >>

\* MmappedVector::~MmappedVector: allocator.sync(element_count), then the
\* destructor of the allocator
Drop ==
    /\ ~crashed
    /\ \E r \in DestroyOutcomes(Sync(allocator, element_count), mem, file) :
          /\ Leaves(r)
          /\ Called("drop", element_count, FALSE)
          /\ open_fds' = IF r.dead THEN open_fds
                         ELSE Closed(open_fds, allocator.file_descriptor)
    /\ UNCHANGED << element_count, atomicVars, threadVars, seed, moved, variant >>

\* a later run of the program constructs a FileMap vector on the same path:
\* MmapFileAllocator(file_name), element_count(allocator.get_backing_size())
Reopen ==
    /\ allocator.kind = "File"
    /\ last.op = "drop"
    /\ ~MmapFileOpen(file).threw
    /\ allocator' = MmapFileOpen(file).a
    /\ mem' = MmapFileOpen(file).m
    /\ file' = MmapFileOpen(file).f
    /\ crashed' = FALSE
    /\ element_count' = get_backing_size(MmapFileOpen(file).a)
    /\ Called("reopen", last.arg, FALSE)
    /\ open_fds' = MmapFileCtor(file, "none", { }).fds
    /\ UNCHANGED << atomicVars, threadVars, seed, moved, variant >>

\* no writer thread has called push_back yet
ThreadsIdle ==
    /\ pc = [t \in Threads |-> "call"]
    /\ index = [t \in Threads |-> 0]
    /\ value = [t \in Threads |-> 0]
    /\ current = [t \in Threads |-> 0]
    /\ new_capacity = [t \in Threads |-> 0]
    /\ depth = [t \in Threads |-> 0]
    /\ i = [t \in Threads |-> 0]
    /\ reserved = << >>
    /\ views = [epoch |-> 0, published |-> 0, seen |-> [t \in Threads |-> 0]]

\* MmappedVector::MmappedVector(Args&&...) of a serial vector: the members
\* of the thread_safe instantiation are std::monostate
Constructed(r) ==
    /\ allocator = r.a
    /\ mem = r.m
    /\ file = r.f
    /\ element_count = get_backing_size(r.a)
    /\ capacity_atomic = 0
    /\ needed_capacity = 0
    /\ operations_in_progress = 0
    /\ mutex = 0
    /\ crashed = FALSE
    /\ steps = 0
    /\ last = [op |-> "construct", arg |-> 0, threw |-> FALSE, ret |-> 0]
    /\ moved = NoVector
    /\ open_fds = { allocator.file_descriptor } \ { -1 }

\* the three vectors of the tests: malloc_vector(), MmapVector, MmapFileVector on a new path
FreshVectors ==
    { Outcome(MallocAllocator, FreshMem(MallocAllocator), NoFile, FALSE, FALSE),
      Outcome(MmapAllocator, FreshMem(MmapAllocator), NoFile, FALSE, FALSE),
      MmapFileOpen(NoFile) }

\* number of public operations a caller of the serial vector makes
MaxOps == 4

\* arguments the caller passes to resize and reserve
Sizes == { 0, 1, 5, MinCapacity, MinCapacity + 1, MaxCapacity + 1 }

\* element values the caller appends
Values == { 1, 2 }

Init ==
    /\ \E r \in FreshVectors : Constructed(r)
    /\ ThreadsIdle
    /\ seed = 0
    /\ variant = "inline"

Next ==
    \/ \E v \in Values : steps < MaxOps /\ PushBack(v)
    \/ \E v \in Values : steps < MaxOps /\ EmplaceBack(v)
    \/ steps < MaxOps /\ PopBack
    \/ steps < MaxOps /\ Clear
    \/ \E n \in Sizes : steps < MaxOps /\ ResizeTo(n)
    \/ \E n \in Sizes : steps < MaxOps /\ Reserve(n)
    \/ steps < MaxOps /\ ShrinkToFit

Spec == Init /\ [][Next]_vars

\* ------------------------------------------------------------------------
\* A caller that appends v_0, v_1, ... to a fresh vector, drops it and, for
\* the FileMap backend, opens the file again
\* ------------------------------------------------------------------------

\* longest sequence the appending caller produces
MaxAppend == 34

\* the input sequences
Seeds == 0 .. 2

\* the k-th value of input sequence sd
V(sd, k) == 1 + (((k + sd) * (sd + 1)) % 4)

AppendInit ==
    /\ \E r \in FreshVectors : Constructed(r)
    /\ ThreadsIdle
    /\ seed \in Seeds
    /\ variant = "inline"

Appending == last.op \in { "construct", "push_back" }

AppendNext ==
    \/ Appending /\ steps < MaxAppend /\ PushBack(V(seed, element_count))
    \/ Appending /\ Drop
    \/ Reopen

AppendSpec == AppendInit /\ [][AppendNext]_vars

\* ------------------------------------------------------------------------
\* MmappedVector<T, AllocatorType, thread_safe = true>: push_back and
\* store_at_index, one action per atomic operation
\* ------------------------------------------------------------------------

\* MmappedVector::MmappedVector(Args&&...) of a thread_safe vector over allocator a
ConcConstructed(a) ==
    /\ allocator = a
    /\ mem = FreshMem(a)
    /\ file = NoFile
    /\ element_count = get_backing_size(a)
    /\ capacity_atomic = a.capacity
    /\ needed_capacity = a.capacity
    /\ operations_in_progress = 0
    /\ mutex = 0
    /\ crashed = FALSE
    /\ steps = 0
    /\ last = [op |-> "construct", arg |-> 0, threw |-> FALSE, ret |-> 0]
    /\ moved = NoVector
    /\ open_fds = { allocator.file_descriptor } \ { -1 }
    /\ seed = 0

\* test_vector_correctness(vec10): a fresh MmappedVector<T, MmapAllocator<T>, true> and its writer threads
ConcInit ==
    /\ ConcConstructed(MmapAllocator)
    /\ ThreadsIdle
    /\ variant = "inline"

\* a fetch_add that returned the new value of the counter instead of the old one
FetchAddResult_New(count) == (count + 1) % SizeMod

\* element_count.fetch_add(1, MEMORY_ORDER): the value returned
FetchAddResult(count) == count

\* a capacity test that lets the index equal to the capacity through
FastPath_Inclusive(idx, current_capacity) == idx <= current_capacity

\* index < current_capacity
FastPath(idx, current_capacity) == idx < current_capacity

\* active_workers > 1
MustWait(active_workers) == active_workers > 1

\* a spin loop that does not wait for the capacity to be published
KeepSpinning_Never(cap, idx) == FALSE

\* the condition of the spin loop: capacity_atomic.load() <= index
KeepSpinning(cap, idx) == cap <= idx

\* std::max(needed_capacity.load(MEMORY_ORDER), index + 1)
GrowTarget(needed, idx) == Max(needed, (idx + 1) % SizeMod)

\* store_at_index returns; the outermost call returns to push_back, which
\* returns to the loop of the thread; lock_guard releases the mutex it holds
\* and the locals of the call go out of scope
Return(t) ==
    /\ pc' = [pc EXCEPT ![t] = "call"]
    /\ i' = [i EXCEPT ![t] = i[t] + 1]
    /\ depth' = [depth EXCEPT ![t] = 0]
    /\ index' = [index EXCEPT ![t] = 0]
    /\ value' = [value EXCEPT ![t] = 0]
    /\ current' = [current EXCEPT ![t] = 0]
    /\ mutex' = IF mutex = t THEN 0 ELSE mutex

\* the loop of a writer thread calls push_back(i): element_count.fetch_add
PushBackCall(t) ==
    /\ ~crashed
    /\ UNCHANGED << callVars, views >>
    /\ pc[t] = "call"
    /\ i[t] < PushesPerThread
    /\ index' = [index EXCEPT ![t] = FetchAddResult(element_count)]
    /\ element_count' = (element_count + 1) % SizeMod
    /\ value' = [value EXCEPT ![t] = i[t]]
    /\ reserved' = Append(reserved, [idx |-> FetchAddResult(element_count), val |-> i[t]])
    /\ depth' = [depth EXCEPT ![t] = 1]
    /\ pc' = [pc EXCEPT ![t] = "ops_inc"]
    /\ UNCHANGED << allocVars, atomicVars, current, new_capacity, i, crashed >>

\* operations_in_progress.fetch_add(1, MEMORY_ORDER)
OpsInc(t) ==
    /\ ~crashed
    /\ UNCHANGED << callVars, views >>
    /\ pc[t] = "ops_inc"
    /\ operations_in_progress' = (operations_in_progress + 1) % SizeMod
    /\ pc' = [pc EXCEPT ![t] = "load_cap"]
    /\ UNCHANGED << allocVars, element_count, capacity_atomic, needed_capacity, mutex,
                    index, value, current, new_capacity, depth, i, reserved, crashed >>

\* #define MEMORY_ORDER std::memory_order_relaxed
MEMORY_ORDER == "relaxed"

\* an atomic load with this order synchronises with the store whose value it reads
Synchronizes(order) == order \in { "seq_cst", "acquire" }

\* current_capacity = capacity_atomic.load(MEMORY_ORDER); if (index < current_capacity)
LoadCap(t) ==
    /\ ~crashed
    /\ UNCHANGED callVars
    /\ views' = IF Synchronizes(MEMORY_ORDER)
                 THEN [views EXCEPT !.seen[t] = Max(@, views.published)]
                 ELSE views
    /\ pc[t] = "load_cap"
    /\ pc' = [pc EXCEPT ![t] = IF FastPath(index[t], capacity_atomic) THEN "store" ELSE "max_load"]
    /\ UNCHANGED << allocVars, element_count, atomicVars,
                    index, value, current, new_capacity, depth, i, reserved, crashed >>

\* another thread is inside realloc / mremap of the buffer
ResizeInProgress(t) == \E u \in Threads \ {t} : pc[u] = "resize"

\* a store that runs while another thread moves the buffer is a data race
\* on the buffer: besides landing in the new buffer it may be lost with the
\* old one, or fault on an address that is no longer mapped
RacyStoreOutcomes(t) ==
    IF ResizeInProgress(t)
        THEN { [m |-> mem, f |-> file, dead |-> TRUE], [m |-> mem, f |-> file, dead |-> FALSE] }
        ELSE { }

\* allocator.ptr is a plain member that the resizer writes under the mutex.
\* A thread that has not synchronised with the resizer since the buffer was
\* last moved may still read the old pointer: its store goes to the
\* pre-grow address, where it is lost or faults
StaleStoreOutcomes(t) ==
    IF views.seen[t] < views.epoch
        THEN { [m |-> mem, f |-> file, dead |-> TRUE], [m |-> mem, f |-> file, dead |-> FALSE] }
        ELSE { }

\* a store that waits while another thread resizes the buffer
Store_Waits(t) ==
    /\ ~crashed
    /\ UNCHANGED << callVars, views >>
    /\ pc[t] = "store"
    /\ ~ResizeInProgress(t)
    /\ pc' = [pc EXCEPT ![t] = "ops_dec"]
    /\ \E w \in StoreOutcomes(allocator, mem, file, index[t], value[t]) :
          /\ mem' = w.m
          /\ file' = w.f
          /\ crashed' = w.dead
    /\ UNCHANGED << allocator, element_count, atomicVars,
                    index, value, current, new_capacity, depth, i, reserved >>

\* allocator.ptr[index] = value
Store(t) ==
    /\ ~crashed
    /\ UNCHANGED << callVars, views >>
    /\ pc[t] = "store"
    /\ pc' = [pc EXCEPT ![t] = "ops_dec"]
    /\ \E w \in StoreOutcomes(allocator, mem, file, index[t], value[t])
                \cup RacyStoreOutcomes(t) \cup StaleStoreOutcomes(t) :
          /\ mem' = w.m
          /\ file' = w.f
          /\ crashed' = w.dead
    /\ UNCHANGED << allocator, element_count, atomicVars,
                    index, value, current, new_capacity, depth, i, reserved >>

\* a fast path that returns without its fetch_sub
OpsDec_Kept(t) ==
    /\ ~crashed
    /\ UNCHANGED << callVars, views >>
    /\ pc[t] = "ops_dec"
    /\ Return(t)
    /\ UNCHANGED << allocVars, element_count, capacity_atomic, operations_in_progress,
                    needed_capacity, new_capacity, reserved, crashed >>

\* operations_in_progress.fetch_sub(1, MEMORY_ORDER) of the fast path, and return
OpsDec(t) ==
    /\ ~crashed
    /\ UNCHANGED << callVars, views >>
    /\ pc[t] = "ops_dec"
    /\ operations_in_progress' = (operations_in_progress - 1) % SizeMod
    /\ Return(t)
    /\ UNCHANGED << allocVars, element_count, capacity_atomic, needed_capacity,
                    new_capacity, reserved, crashed >>

\* atomic_store_max: T current = target.load(MEMORY_ORDER); while (value > current)
MaxLoad(t) ==
    /\ ~crashed
    /\ UNCHANGED << callVars, views >>
    /\ pc[t] = "max_load"
    /\ current' = [current EXCEPT ![t] = needed_capacity]
    /\ pc' = [pc EXCEPT ![t] = IF (index[t] + 1) % SizeMod > needed_capacity
                               THEN "max_cas" ELSE "ops_dec_slow"]
    /\ UNCHANGED << allocVars, element_count, atomicVars,
                    index, value, new_capacity, depth, i, reserved, crashed >>

\* an atomic_store_max that stores its value without comparing
MaxCas_Blind(t) ==
    /\ ~crashed
    /\ UNCHANGED << callVars, views >>
    /\ pc[t] = "max_cas"
    /\ needed_capacity' = (index[t] + 1) % SizeMod
    /\ pc' = [pc EXCEPT ![t] = "ops_dec_slow"]
    /\ UNCHANGED << allocVars, element_count, capacity_atomic, operations_in_progress, mutex,
                    index, value, current, new_capacity, depth, i, reserved, crashed >>

\* atomic_store_max: target.compare_exchange_weak(current, value, MEMORY_ORDER)
MaxCas(t) ==
    /\ ~crashed
    /\ UNCHANGED << callVars, views >>
    /\ pc[t] = "max_cas"
    /\ IF needed_capacity = current[t]
         THEN /\ needed_capacity' = (index[t] + 1) % SizeMod
              /\ pc' = [pc EXCEPT ![t] = "ops_dec_slow"]
              /\ UNCHANGED current
         ELSE /\ current' = [current EXCEPT ![t] = needed_capacity]
              /\ pc' = [pc EXCEPT ![t] = IF (index[t] + 1) % SizeMod > needed_capacity
                                         THEN "max_cas" ELSE "ops_dec_slow"]
              /\ UNCHANGED needed_capacity
    /\ UNCHANGED << allocVars, element_count, capacity_atomic, operations_in_progress, mutex,
                    index, value, new_capacity, depth, i, reserved, crashed >>

\* active_workers = operations_in_progress.fetch_sub(1, MEMORY_ORDER); if (active_workers > 1)
OpsDecSlow(t) ==
    /\ ~crashed
    /\ UNCHANGED << callVars, views >>
    /\ pc[t] = "ops_dec_slow"
    /\ operations_in_progress' = (operations_in_progress - 1) % SizeMod
    /\ pc' = [pc EXCEPT ![t] = IF MustWait(operations_in_progress) THEN "spin" ELSE "lock"]
    /\ UNCHANGED << allocVars, element_count, capacity_atomic, needed_capacity, mutex,
                    index, value, current, new_capacity, depth, i, reserved, crashed >>

\* while (capacity_atomic.load(MEMORY_ORDER) <= index) {};  then the function returns
SpinExit(t) ==
    /\ ~crashed
    /\ UNCHANGED << callVars, views >>
    /\ pc[t] = "spin"
    /\ ~KeepSpinning(capacity_atomic, index[t])
    /\ Return(t)
    /\ UNCHANGED << allocVars, element_count, capacity_atomic, operations_in_progress,
                    needed_capacity, new_capacity, reserved, crashed >>

\* a lock_guard that does not wait for the mutex to be free
Lock_Unguarded(t) ==
    /\ ~crashed
    /\ UNCHANGED callVars
    /\ views' = [views EXCEPT !.seen[t] = views.epoch]
    /\ pc[t] = "lock"
    /\ mutex' = t
    /\ pc' = [pc EXCEPT ![t] = "grow"]
    /\ UNCHANGED << allocVars, element_count, capacity_atomic, operations_in_progress,
                    needed_capacity, index, value, current, new_capacity, depth, i,
                    reserved, crashed >>

\* std::lock_guard<std::mutex> lock(mutex)
Lock(t) ==
    /\ ~crashed
    /\ UNCHANGED callVars
    /\ views' = [views EXCEPT !.seen[t] = views.epoch]
    /\ pc[t] = "lock"
    /\ mutex = 0
    /\ mutex' = t
    /\ pc' = [pc EXCEPT ![t] = "grow"]
    /\ UNCHANGED << allocVars, element_count, capacity_atomic, operations_in_progress,
                    needed_capacity, index, value, current, new_capacity, depth, i,
                    reserved, crashed >>

\* allocator.increase_capacity(std::max(needed_capacity.load(), index + 1)) up to
\* the call of resize(new_capacity)
Grow(t) ==
    /\ ~crashed
    /\ UNCHANGED << callVars, views >>
    /\ pc[t] = "grow"
    /\ IF NoGrowthNeeded(allocator.capacity, GrowTarget(needed_capacity, index[t]))
         THEN /\ pc' = [pc EXCEPT ![t] = "publish"]
              /\ UNCHANGED << new_capacity, crashed >>
         ELSE IF NewCapacity(allocator.capacity, GrowTarget(needed_capacity, index[t])) = Hang
         THEN /\ crashed' = TRUE
              /\ UNCHANGED << pc, new_capacity >>
         ELSE /\ new_capacity' = [new_capacity EXCEPT ![t] =
                    NewCapacity(allocator.capacity, GrowTarget(needed_capacity, index[t]))]
              /\ pc' = [pc EXCEPT ![t] = "resize"]
              /\ UNCHANGED crashed
    /\ UNCHANGED << allocVars, element_count, atomicVars,
                    index, value, current, depth, i, reserved >>

\* resize(new_capacity) completes: realloc / mremap returns.  An exception
\* leaves the thread function and ends the process (std::terminate).
Resize(t) ==
    /\ ~crashed
    /\ UNCHANGED callVars
    /\ pc[t] = "resize"
    /\ \E r \in ResizeOutcomes(allocator, mem, file, new_capacity[t]) :
          /\ allocator' = r.a
          /\ mem' = r.m
          /\ file' = r.f
          /\ crashed' = (r.threw \/ r.dead)
          /\ views' = IF r.threw \/ r.dead \/ r.a = allocator THEN views
                      ELSE [views EXCEPT !.epoch = @ + 1, !.seen[t] = views.epoch + 1]
    /\ pc' = [pc EXCEPT ![t] = "publish"]
    /\ new_capacity' = [new_capacity EXCEPT ![t] = 0]
    /\ UNCHANGED << element_count, atomicVars, index, value, current, depth, i, reserved >>

\* a resizer that calls store_at_index again without publishing the capacity
Publish_Skipped(t) ==
    /\ ~crashed
    /\ UNCHANGED callVars
    /\ views' = [views EXCEPT !.published = views.epoch]
    /\ pc[t] = "publish"
    /\ depth' = [depth EXCEPT ![t] = depth[t] + 1]
    /\ pc' = [pc EXCEPT ![t] = "ops_inc"]
    /\ UNCHANGED << allocVars, element_count, atomicVars,
                    index, value, current, new_capacity, i, reserved, crashed >>

\* capacity_atomic.store(allocator.get_capacity(), MEMORY_ORDER); store_at_index(value, index)
Publish(t) ==
    /\ ~crashed
    /\ UNCHANGED callVars
    /\ views' = [views EXCEPT !.published = views.epoch]
    /\ pc[t] = "publish"
    /\ capacity_atomic' = allocator.capacity
    /\ depth' = [depth EXCEPT ![t] = depth[t] + 1]
    /\ pc' = [pc EXCEPT ![t] = "ops_inc"]
    /\ UNCHANGED << allocVars, element_count, operations_in_progress, needed_capacity, mutex,
                    index, value, current, new_capacity, i, reserved, crashed >>

\* one step of thread t inside push_back
ThreadStep(t) ==
    \/ PushBackCall(t)
    \/ OpsInc(t)
    \/ LoadCap(t)
    \/ Store(t)
    \/ OpsDec(t)
    \/ MaxLoad(t)
    \/ MaxCas(t)
    \/ OpsDecSlow(t)
    \/ SpinExit(t)
    \/ Lock(t)
    \/ Grow(t)
    \/ Resize(t)
    \/ Publish(t)

ConcNext == \E t \in Threads : ThreadStep(t)

ConcSpec == ConcInit /\ [][ConcNext]_vars

\* threads are scheduled fairly: a thread that can take a step eventually takes one
ConcFairSpec == ConcSpec /\ \A t \in Threads : WF_vars(ThreadStep(t))

\* every thread has returned from all of its push_back calls
AllReturned == \A t \in Threads : pc[t] = "call" /\ i[t] = PushesPerThread

\* no push_back call is in flight
Quiescent == \A t \in Threads : pc[t] = "call"


\* ------------------------------------------------------------------------
\* Concurrent append: properties
\* ------------------------------------------------------------------------
TotalPushes == NThreads * PushesPerThread

\* the bag of the element values in slots 0 .. n-1 of the buffer
SlotBag(n) == LET S == [k \in 1 .. n |-> IF (k - 1) \in DOMAIN mem THEN mem[k - 1] ELSE Indet]
              IN  IF n = 0 THEN EmptyBag
                  ELSE [v \in {S[k] : k \in 1 .. n} |-> Cardinality({k \in 1 .. n : S[k] = v})]

\* the bag of the values the push_back calls were given
PushedBag == IF reserved = << >> THEN EmptyBag
             ELSE [v \in {reserved[k].val : k \in DOMAIN reserved} |->
                      Cardinality({k \in DOMAIN reserved : reserved[k].val = v})]

\* C1: once every push_back call of every thread has returned, each slot
\* below K*M holds the value of the call that reserved it, and the bag of
\* the slots equals the bag of the pushed values (no pushed value is lost,
\* also not the value of a writer that waited in the spin loop).
C1_EveryPushedValueStored ==
    AllReturned =>
        /\ \A k \in DOMAIN reserved :
              /\ reserved[k].idx \in DOMAIN mem
              /\ mem[reserved[k].idx] = reserved[k].val
        /\ SlotBag(TotalPushes) = PushedBag

\* C2: no thread is about to execute allocator.ptr[index] = value while
\* another thread is inside resize() (realloc / mremap) of increase_capacity.
C2_NoStoreDuringResize ==
    \A t \in Threads : \A u \in Threads \ {t} : ~(pc[t] = "store" /\ pc[u] = "resize")

\* C3: under weak fairness of every thread, a writer that entered the spin
\* loop eventually leaves it and its push_back returns (or the process died).
C3_SpinnerEventuallyReturns ==
    \A t \in Threads : (pc[t] = "spin") ~> (pc[t] = "call" \/ crashed)

\* the indices held by the push_back calls in flight
InFlight(t) == pc[t] # "call"

\* C4: the k-th fetch_add on element_count returns k (counting from 0), so
\* the reserved indices are pairwise distinct, two calls in flight never
\* hold the same index, and when all K*M calls have returned the reserved
\* indices are exactly 0 .. K*M-1 and size() == K*M.
C4_IndicesDistinct ==
    /\ \A k \in DOMAIN reserved : reserved[k].idx = k - 1
    /\ \A t \in Threads : \A u \in Threads \ {t} :
          InFlight(t) /\ InFlight(u) => index[t] # index[u]
    /\ AllReturned =>
          /\ element_count = TotalPushes
          /\ {reserved[k].idx : k \in DOMAIN reserved} = 0 .. TotalPushes - 1

\* all calls returned, after at least one growth of the buffer
C4_Witness ==
    /\ AllReturned
    /\ element_count = TotalPushes
    /\ allocator.capacity > page_size \div SizeofT

C7_SizeWithinCapacity ==
    0 <= size /\ size <= capacity

\* the invariants of the data model hold: the vector owns a live buffer of
\* capacity() elements, size() <= capacity(), and the file of a FileMap
\* vector is as long as its mapping
WellFormed ==
    /\ allocator.ptr = "valid"
    /\ size <= capacity
    /\ allocator.kind = "File" => file.len = capacity * SizeofT

\* C8: a push_back(v) that returns normally on a serial vector of size s
\* that satisfies the invariants of the data model, with s below or equal to
\* the capacity, leaves size() == s + 1 and back() == v and keeps the
\* elements at indices 0 .. s-1.
C8_PushBackAppends ==
    [][ ( /\ steps' # steps
          /\ last'.op = "push_back"
          /\ ~last'.threw
          /\ ~crashed'
          /\ WellFormed )
        => ( /\ size' = size + 1
             /\ (size' - 1) \in DOMAIN mem'
             /\ mem'[size' - 1] = last'.arg
             /\ \A k \in 0 .. size - 1 : k \in DOMAIN mem' /\ mem'[k] = mem[k] ) ]_vars

\* a push_back on a full buffer has just grown it and stored its value
C8_Witness ==
    /\ last.op = "push_back"
    /\ ~last.threw
    /\ ~crashed
    /\ size = MinCapacity + 1
    /\ capacity = 2 * MinCapacity
    /\ mem[size - 1] = last.arg

\* C9: after appending v_0 .. v_{n-1} to an initially empty serial vector,
\* size() == n, capacity() >= n and data()[k] == v_k for every k < n.
C9_AppendedValues ==
    (Appending /\ ~crashed) =>
        /\ size = steps
        /\ capacity >= steps
        /\ \A k \in 0 .. steps - 1 : k \in DOMAIN mem /\ mem[k] = V(seed, k)

\* the heap vector after two doublings of its capacity
C9_Witness ==
    /\ Appending
    /\ allocator.kind = "Malloc"
    /\ size > 2 * MinCapacity
    /\ capacity = 4 * MinCapacity

MaxFileOps == 4

\* the lengths, in bytes, of the file the constructor finds
FileLens ==
    { 0, 1, SizeofT - 1, SizeofT, SizeofT + 1, 2 * SizeofT,
      MinCapacity * SizeofT, (MinCapacity + 1) * SizeofT, (MinCapacity + 1) * SizeofT + 1 }

\* a file of len bytes that holds the values of input sequence sd
OnDisk(len, sd) ==
    [len  |-> len,
     data |-> [k \in 0 .. ((len + SizeofT - 1) \div SizeofT) - 1 |-> V(sd, k)]]

\* the program starts; the vector is not constructed yet
FileInit ==
    /\ seed \in Seeds
    /\ \E len \in FileLens : file = OnDisk(len, seed)
    /\ allocator = Unopened
    /\ mem = << >>
    /\ element_count = 0
    /\ capacity_atomic = 0
    /\ needed_capacity = 0
    /\ operations_in_progress = 0
    /\ mutex = 0
    /\ crashed = FALSE
    /\ steps = 0
    /\ last = [op |-> "start", arg |-> 0, threw |-> FALSE, ret |-> 0]
    /\ moved = NoVector
    /\ open_fds = { }
    /\ variant = "inline"
    /\ ThreadsIdle

\* MmappedVector<T, MmapFileAllocator<T>>(file_name): the allocator is
\* constructed on the file, element_count(allocator.get_backing_size())
Open ==
    /\ last.op = "start"
    /\ Leaves(MmapFileOpen(file))
    /\ element_count' = get_backing_size(MmapFileOpen(file).a)
    /\ Called("open", file.len, MmapFileOpen(file).threw)
    /\ open_fds' = MmapFileCtor(file, "none", open_fds).fds
    /\ UNCHANGED << atomicVars, threadVars, seed, moved, variant >>

\* the caller holds a constructed vector and may make another call
Live ==
    /\ steps < MaxFileOps
    /\ last.op \notin { "start", "drop" }
    /\ ~(last.op = "open" /\ last.threw)

FileNext ==
    \/ Open
    \/ \E v \in Values : Live /\ PushBack(v)
    \/ Live /\ PopBack
    \/ \E n \in Sizes : Live /\ ResizeTo(n)
    \/ \E n \in Sizes : Live /\ Reserve(n)
    \/ Live /\ ShrinkToFit
    \/ Live /\ Drop
    \/ steps < MaxFileOps /\ Reopen

FileSpec == FileInit /\ [][FileNext]_vars

\* C11: the constructor of a FileMap vector throws exactly when the length
\* of the file it finds is not a multiple of sizeof(T); then no buffer is
\* mapped and the file is left as it was.  Every multiple of sizeof(T),
\* 0 included, is accepted and gives a vector of length / sizeof(T) elements.
C11_CorruptedFileRejected ==
    [][ (steps' # steps /\ last'.op = "open") =>
           /\ last'.threw <=> (file.len % SizeofT # 0)
           /\ last'.threw =>
                 (allocator'.ptr = "null" /\ mem' = << >> /\ file' = file)
           /\ ~last'.threw =>
                 /\ allocator'.ptr = "valid"
                 /\ size' = file.len \div SizeofT
                 /\ capacity' >= size'
                 /\ \A k \in 0 .. size' - 1 : mem'[k] = file.data[k] ]_vars

\* the constructor has just refused a file of MinCapacity + 1 elements and one byte
C11_Witness ==
    /\ last.op = "open"
    /\ last.threw
    /\ allocator.ptr = "null"
    /\ file.len = (MinCapacity + 1) * SizeofT + 1

\* ------------------------------------------------------------------------
\* Serial vector: capacity, reserve, clear
\* ------------------------------------------------------------------------

\* C12: across push_back, emplace_back, pop_back, clear, resize and reserve
\* on a serial vector capacity() never decreases; in particular resize(n)
\* with n < capacity() leaves capacity() unchanged.
C12_CapacityNeverShrinks ==
    [][ ( /\ steps' # steps
          /\ last'.op \in { "push_back", "emplace_back", "pop_back", "clear", "resize", "reserve" }
          /\ ~crashed' )
        => capacity' >= capacity ]_vars

\* C13: a reserve(n) that returns on a serial vector that satisfies the
\* invariants of the data model leaves capacity() >= n, keeps size() and the
\* elements below size(); the capacity grows strictly when n exceeded it and
\* nothing at all changes when n <= capacity().
C13_ReserveGrowsOnly ==
    [][ ( /\ steps' # steps
          /\ last'.op = "reserve"
          /\ ~last'.threw
          /\ ~crashed'
          /\ WellFormed )
        => ( /\ capacity' >= last'.arg
             /\ size' = size
             /\ \A k \in 0 .. size - 1 : k \in DOMAIN mem' /\ mem'[k] = mem[k]
             /\ last'.arg > capacity => capacity' > capacity
             /\ last'.arg <= capacity => UNCHANGED << allocator, mem, file, element_count >> ) ]_vars

\* reserve(MinCapacity + 1) has just doubled the buffer of a vector that holds elements
C13_Witness ==
    /\ last.op = "reserve"
    /\ ~last.threw
    /\ ~crashed
    /\ last.arg = MinCapacity + 1
    /\ capacity = 2 * MinCapacity
    /\ size = 2
    /\ mem[0] \in Values /\ mem[1] \in Values

\* C14: clear() on a serial vector leaves size() == 0 and empty() true and
\* does not touch the capacity, the buffer, its contents or the file.
C14_ClearKeepsCapacity ==
    [][ (steps' # steps /\ last'.op = "clear")
        => ( /\ size' = 0
             /\ empty'
             /\ ~last'.threw
             /\ capacity' = capacity
             /\ UNCHANGED << allocator, mem, file, crashed >> ) ]_vars

\* clear() has just emptied a vector that held two elements, which stay in the buffer
C14_Witness ==
    /\ last.op = "clear"
    /\ size = 0
    /\ empty
    /\ capacity >= 2
    /\ mem[0] \in Values /\ mem[1] \in Values

\* ------------------------------------------------------------------------
\* Serial vector: at(), move construction and move assignment
\* ------------------------------------------------------------------------

\* a bounds check that lets the index size() through
OutOfRange_Off(pos, count) == pos > count

\* at: pos >= element_count
OutOfRange(pos, count) == pos >= count

\* what reading allocator.ptr[k] can do: [v, dead].  Inside the buffer it
\* yields the element (SIGBUS on a page beyond the end of the mapped file);
\* outside the buffer or through a pointer that is not live it is undefined.
LoadOutcomes(a, m, f, k) ==
    IF a.ptr = "valid" /\ k \in DOMAIN m /\ k < a.capacity
        THEN IF a.kind = "File" /\ ~(k * SizeofT < f.len) /\ ~InFilePages(f, k)
                THEN { [v |-> Indet, dead |-> TRUE] }
                ELSE { [v |-> m[k], dead |-> FALSE] }
        ELSE { [v |-> Indet, dead |-> TRUE], [v |-> Indet, dead |-> FALSE] }

\* MmappedVector::at(pos)
At(pos) ==
    /\ ~crashed
    /\ IF OutOfRange(pos, element_count)
         THEN /\ Returned("at", pos, TRUE, 0)
              /\ UNCHANGED crashed
         ELSE \E w \in LoadOutcomes(allocator, mem, file, pos) :
              /\ Returned("at", pos, FALSE, w.v)
              /\ crashed' = w.dead
    /\ UNCHANGED << allocVars, element_count, atomicVars, threadVars, seed, moved, open_fds, variant >>

\* a move that leaves the members of its source as they were
MovedFrom_Kept(a) == a

\* the allocator a move leaves behind: other.ptr = nullptr, other.capacity = 0,
\* other.backing_size = 0, other.file_descriptor = -1
MovedFrom(a) ==
    [a EXCEPT !.ptr = "null", !.capacity = 0, !.backing_size = 0, !.file_descriptor = -1]

\* VectorType vec2(std::move(vec)): MmappedVector(MmappedVector&&), thread_safe == false
MoveConstruct ==
    /\ ~crashed
    /\ moved = NoVector
    /\ moved' = [a |-> allocator, m |-> mem, count |-> element_count]
    /\ allocator' = MovedFrom(allocator)
    /\ mem' = << >>
    /\ element_count' = 0
    /\ Called("move_construct", 0, FALSE)
    /\ UNCHANGED << file, atomicVars, threadVars, crashed, seed, open_fds, variant >>

\* vec = std::move(vec2): MmappedVector::operator=(MmappedVector&&), thread_safe == false.
\* The move assignment of the allocator releases the buffer of vec as its
\* destructor does (without a sync) and takes the buffer of vec2.
MoveAssign ==
    /\ ~crashed
    /\ moved # NoVector
    /\ \E r \in DestroyOutcomes(allocator, mem, file) :
          /\ Called("move_assign", 0, FALSE)
          /\ crashed' = r.dead
          /\ open_fds' = IF r.dead THEN open_fds
                         ELSE Closed(open_fds, allocator.file_descriptor)
          /\ file' = r.f
          /\ IF r.dead
               THEN /\ allocator' = r.a
                    /\ mem' = r.m
                    /\ UNCHANGED << element_count, moved >>
               ELSE /\ allocator' = moved.a
                    /\ mem' = moved.m
                    /\ element_count' = moved.count
                    /\ moved' = [a |-> MovedFrom(moved.a), m |-> << >>, count |-> 0]
    /\ UNCHANGED << atomicVars, threadVars, seed, variant >>

\* number of calls the moving caller makes
MaxMoveOps == 4

\* indices the caller passes to at()
Positions == { 0, 1, 2 }

\* the vector is in scope and the caller may make another call
Alive == steps < MaxMoveOps /\ last.op # "drop"

MoveNext ==
    \/ \E v \in Values : Alive /\ PushBack(v)
    \/ \E v \in Values : Alive /\ EmplaceBack(v)
    \/ Alive /\ PopBack
    \/ \E pos \in Positions : Alive /\ At(pos)
    \/ Alive /\ Clear
    \/ Alive /\ MoveConstruct
    \/ Alive /\ MoveAssign
    \/ Alive /\ ResizeTo(1)
    \/ Alive /\ Drop

MoveSpec == Init /\ [][MoveNext]_vars

\* C15: at(i) throws out_of_range exactly when i >= size(); otherwise, on a
\* vector that satisfies the invariants of the data model, it returns the
\* element at index i.  In both cases size, capacity, buffer and file are
\* as before the call.
C15_AtChecksBounds ==
    [][ (steps' # steps /\ last'.op = "at")
        => ( /\ last'.threw <=> (last'.arg >= size)
             /\ (~last'.threw /\ WellFormed) =>
                    (~crashed' /\ last'.ret = mem[last'.arg])
             /\ UNCHANGED << allocator, mem, file, element_count >> ) ]_vars

\* at(1) has just returned the second element of a vector of two elements
C15_Witness ==
    /\ last.op = "at"
    /\ ~last.threw
    /\ ~crashed
    /\ last.arg = 1
    /\ size = 2
    /\ last.ret = mem[1]
    /\ last.ret \in Values

\* C17: a move construction hands buffer, capacity and element count of the
\* source to the new vector, a move assignment hands those of the second
\* vector to the destination, the moved-from vector has size() == 0, and the
\* vector that was just moved from can be appended to and dropped without
\* an error, on every backend.
C17_MoveLeavesValidSource ==
    [][ steps' # steps =>
          /\ last'.op = "move_construct" =>
                /\ moved'.a = allocator /\ moved'.m = mem /\ moved'.count = size
                /\ size' = 0
          /\ last'.op = "move_assign" =>
                /\ ~crashed'
                /\ allocator' = moved.a /\ mem' = moved.m /\ size' = moved.count
                /\ moved'.count = 0
          /\ (last.op = "move_construct" /\ last'.op \in { "push_back", "emplace_back", "drop" }) =>
                (~last'.threw /\ ~crashed') ]_vars

\* ------------------------------------------------------------------------
\* A thread_safe vector whose owner also calls reserve, resize and
\* shrink_to_fit between the appends of the writer threads
\* ------------------------------------------------------------------------

\* number of calls other than push_back the owner makes
MaxConcOps == 1

OwnerCalls == Quiescent /\ mutex = 0 /\ steps < MaxConcOps

\* MmappedVector::emplace_back, thread_safe == true: throw std::runtime_error("Not implemented")
EmplaceBackThreadSafe(v) ==
    /\ ~crashed
    /\ Called("emplace_back", v, TRUE)
    /\ UNCHANGED << allocVars, element_count, atomicVars, threadVars, crashed, seed, moved, open_fds, variant >>

\* MmappedVector(MmappedVector&&) noexcept, thread_safe == true: the members
\* are moved, then the body throws; the exception cannot leave a noexcept
\* function, std::terminate ends the process
MoveConstructThreadSafe ==
    /\ ~crashed
    /\ moved = NoVector
    /\ moved' = [a |-> allocator, m |-> mem, count |-> element_count]
    /\ allocator' = MovedFrom(allocator)
    /\ mem' = << >>
    /\ crashed' = TRUE
    /\ Called("move_construct", 0, FALSE)
    /\ UNCHANGED << file, element_count, atomicVars, threadVars, seed, open_fds, variant >>

\* operator=(MmappedVector&&) noexcept, thread_safe == true: throws at once,
\* std::terminate ends the process
MoveAssignThreadSafe ==
    /\ ~crashed
    /\ crashed' = TRUE
    /\ Called("move_assign", 0, FALSE)
    /\ UNCHANGED << allocVars, element_count, atomicVars, threadVars, seed, moved, open_fds, variant >>

ConcOpsNext ==
    \/ \E t \in Threads : ThreadStep(t)
    \/ \E n \in Sizes : OwnerCalls /\ Reserve(n)
    \/ \E n \in Sizes : OwnerCalls /\ ResizeTo(n)
    \/ OwnerCalls /\ ShrinkToFit
    \/ OwnerCalls /\ PopBack
    \/ OwnerCalls /\ Clear
    \/ \E pos \in Positions : OwnerCalls /\ At(pos)
    \/ \E v \in Values : OwnerCalls /\ EmplaceBackThreadSafe(v)
    \/ OwnerCalls /\ MoveConstructThreadSafe
    \/ OwnerCalls /\ MoveAssignThreadSafe

ConcOpsSpec == ConcInit /\ [][ConcOpsNext]_vars

\* C5: whenever no thread holds the grow mutex, the published capacity
\* capacity_atomic equals allocator.get_capacity().
C5_PublishedCapacity ==
    mutex = 0 => capacity_atomic = allocator.capacity

\* C18: on a thread_safe vector pop_back, clear, resize, shrink_to_fit,
\* move construction, move assignment, emplace_back and at each throw the
\* not-supported error and leave element_count, the allocator capacity and
\* the published capacity as they were.
C18_UnsupportedInConcurrentMode ==
    [][ ( /\ steps' # steps
          /\ last'.op \in { "pop_back", "clear", "resize", "shrink_to_fit",
                             "move_construct", "move_assign", "emplace_back", "at" } )
        => ( /\ last'.threw
             /\ ~crashed'
             /\ allocator'.capacity = allocator.capacity
             /\ UNCHANGED << element_count, capacity_atomic >> ) ]_vars

\* ------------------------------------------------------------------------
\* Failures of the allocator, and the file of a FileMap vector
\* ------------------------------------------------------------------------

\* C16: when push_back, emplace_back, reserve, resize or shrink_to_fit of a
\* serial vector throws, the vector is as it was before the call: same
\* allocator state (buffer pointer, capacity), same contents, same size, and
\* for a FileMap vector the file is still capacity * sizeof(T) bytes long.
C16_FailedCallChangesNothing ==
    [][ ( /\ steps' # steps
          /\ last'.op \in { "push_back", "emplace_back", "reserve", "resize", "shrink_to_fit" }
          /\ last'.threw )
        => ( /\ ~crashed'
             /\ UNCHANGED << allocator, mem, element_count >>
             /\ allocator.kind = "File" => file'.len = capacity' * SizeofT ) ]_vars

\* C19: the file of a FileMap vector is capacity * sizeof(T) bytes long
\* after construction and after every push_back, reserve, resize or
\* shrink_to_fit that returned and changed the capacity; after a drop that
\* completed it is element_count * sizeof(T) bytes long.
C19_FileLengthTracksCapacity ==
    [][ steps' # steps =>
          /\ (last'.op \in { "open", "reopen" } /\ ~last'.threw) =>
                file'.len = capacity' * SizeofT
          /\ ( /\ last'.op \in { "push_back", "reserve", "resize", "shrink_to_fit" }
               /\ ~last'.threw
               /\ ~crashed'
               /\ capacity' # capacity ) =>
                file'.len = capacity' * SizeofT
          /\ (last'.op = "drop" /\ ~crashed') =>
                file'.len = element_count * SizeofT ]_vars

\* a vector opened on a file of MinCapacity + 1 elements was appended to,
\* which doubled the mapping, and dropped
C19_Witness ==
    /\ last.op = "drop"
    /\ ~crashed
    /\ allocator.kind = "File"
    /\ element_count = MinCapacity + 2
    /\ file.len = (MinCapacity + 2) * SizeofT

\* C20: dropping a FileMap vector always completes: a failure of the
\* truncate or of the remap is swallowed, the buffer is unmapped, the file
\* descriptor is closed and the process goes on.
C20_DropSwallowsFailure ==
    [][ (steps' # steps /\ last'.op = "drop" /\ allocator.kind = "File")
        => ( /\ ~crashed'
             /\ allocator'.ptr = "null"
             /\ allocator'.file_descriptor = -1 ) ]_vars

\* ------------------------------------------------------------------------
\* Concurrent append when the allocator fails inside the resizer; the thread
\* functions catch the exception of push_back and go on with their loops
\* ------------------------------------------------------------------------

\* number of resize() calls of the resizer that the system lets fail
MaxFailures == 1

\* resize(new_capacity) fails inside increase_capacity: mremap returns
\* MAP_FAILED and MmapAllocator::resize throws before it assigns ptr or
\* capacity.  The exception leaves store_at_index (the lock_guard releases
\* the mutex, capacity_atomic.store is not reached) and push_back.
ResizeFails(t) ==
    /\ ~crashed
    /\ pc[t] = "resize"
    /\ steps < MaxFailures
    /\ Returned("push_back", index[t], TRUE, 0)
    /\ Return(t)
    /\ new_capacity' = [new_capacity EXCEPT ![t] = 0]
    /\ UNCHANGED << allocVars, element_count, capacity_atomic, operations_in_progress,
                    needed_capacity, reserved, crashed, seed, moved, open_fds, variant, views >>

\* one step of thread t when the system may refuse memory
FailStep(t) == ThreadStep(t) \/ ResizeFails(t)

ConcFailNext == \E t \in Threads : FailStep(t)

ConcFailSpec == ConcInit /\ [][ConcFailNext]_vars

\* threads are scheduled fairly
ConcFailFairSpec == ConcFailSpec /\ \A t \in Threads : WF_vars(FailStep(t))

\* C21: when the allocator fails inside the resizer the published capacity
\* stays as it was and the grow mutex is released, and under weak fairness
\* of every thread a writer that spins on an index at or above the
\* published capacity after such a failure eventually leaves the loop.
C21_SpinnersReleasedAfterFailure ==
    /\ [][ (steps' # steps /\ last'.threw)
           => (capacity_atomic' = capacity_atomic /\ mutex' = 0) ]_vars
    /\ \A t \in Threads :
          (pc[t] = "spin" /\ last.threw /\ KeepSpinning(capacity_atomic, index[t]))
             ~> (pc[t] # "spin" \/ crashed)

\* ------------------------------------------------------------------------
\* Construction of a FileMap vector when the system refuses a call
\* ------------------------------------------------------------------------

\* MmappedVector<T, MmapFileAllocator<T>>(file_name) when the system refuses
\* at step fault; an exception of the allocator's constructor leaves the
\* constructor of the vector, no vector exists
Construct(fault) ==
    /\ last.op = "start"
    /\ Leaves(MmapFileCtor(file, fault, open_fds).out)
    /\ element_count' = get_backing_size(MmapFileCtor(file, fault, open_fds).out.a)
    /\ Returned("open", file.len, MmapFileCtor(file, fault, open_fds).out.threw, fault)
    /\ open_fds' = MmapFileCtor(file, fault, open_fds).fds
    /\ UNCHANGED << atomicVars, threadVars, seed, moved, variant >>

CtorNext ==
    \/ \E fault \in CtorFaults : Construct(fault)
    \/ \E v \in Values : Live /\ PushBack(v)
    \/ Live /\ Drop

CtorSpec == FileInit /\ [][CtorNext]_vars

\* C22: when the constructor of a FileMap vector has thrown, at whichever
\* step, no descriptor is left open and no buffer is mapped; when it has
\* returned, the descriptor is open and the allocator holds it, together
\* with the mapping.
C22_FailedConstructionLeaksNothing ==
    last.op = "open" =>
        /\ last.threw =>
              /\ open_fds = { }
              /\ allocator.file_descriptor = -1
              /\ allocator.ptr = "null"
              /\ mem = << >>
        /\ ~last.threw =>
              /\ allocator.file_descriptor # -1
              /\ open_fds = { allocator.file_descriptor }
              /\ allocator.ptr = "valid"

\* mmap has just failed on a new file that ftruncate had already extended
C22_Witness ==
    /\ last.op = "open"
    /\ last.threw
    /\ last.ret = "mmap"
    /\ file.len = MinCapacity * SizeofT
    /\ open_fds = { }
    /\ allocator.ptr = "null"

\* ------------------------------------------------------------------------
\* The two variants of store_at_index: the inline one compiled with
\* USE_INELEGANT_IMPLEMENTATION == 1 and the one built on IndexHolder
\* ------------------------------------------------------------------------

Variants == { "inline", "holder" }

\* IndexHolder::slow_path: the spin loop ends, slow_path goes on to its last statement
HolderSpinExit(t) ==
    /\ ~crashed
    /\ UNCHANGED << callVars, views >>
    /\ pc[t] = "spin"
    /\ ~KeepSpinning(capacity_atomic, index[t])
    /\ pc' = [pc EXCEPT ![t] = "ops_inc_slow"]
    /\ UNCHANGED << allocVars, element_count, atomicVars,
                    index, value, current, new_capacity, depth, i, reserved, crashed >>

\* IndexHolder::slow_path: vec.capacity_atomic.store(vec.allocator.get_capacity());
\* the lock_guard goes out of scope at the end of the else branch
HolderPublish(t) ==
    /\ ~crashed
    /\ UNCHANGED callVars
    /\ views' = [views EXCEPT !.published = views.epoch]
    /\ pc[t] = "publish"
    /\ capacity_atomic' = allocator.capacity
    /\ mutex' = 0
    /\ pc' = [pc EXCEPT ![t] = "ops_inc_slow"]
    /\ UNCHANGED << allocVars, element_count, operations_in_progress, needed_capacity,
                    index, value, current, new_capacity, depth, i, reserved, crashed >>

\* IndexHolder::slow_path: vec.operations_in_progress.fetch_add(1); the
\* constructor returns and store_at_index goes on to allocator.ptr[index] = value
HolderOpsInc(t) ==
    /\ ~crashed
    /\ UNCHANGED << callVars, views >>
    /\ pc[t] = "ops_inc_slow"
    /\ operations_in_progress' = (operations_in_progress + 1) % SizeMod
    /\ pc' = [pc EXCEPT ![t] = "store"]
    /\ UNCHANGED << allocVars, element_count, capacity_atomic, needed_capacity, mutex,
                    index, value, current, new_capacity, depth, i, reserved, crashed >>

\* one step of thread t inside push_back when store_at_index is the
\* IndexHolder variant: the constructor of IndexHolder, slow_path, the
\* store, and ~IndexHolder (the fetch_sub of OpsDec)
HolderStep(t) ==
    \/ PushBackCall(t)
    \/ OpsInc(t)
    \/ LoadCap(t)
    \/ Store(t)
    \/ OpsDec(t)
    \/ MaxLoad(t)
    \/ MaxCas(t)
    \/ OpsDecSlow(t)
    \/ HolderSpinExit(t)
    \/ Lock(t)
    \/ Grow(t)
    \/ Resize(t)
    \/ HolderPublish(t)
    \/ HolderOpsInc(t)

\* a thread_safe vector built with either variant
EitherInit ==
    /\ ConcConstructed(MmapAllocator)
    /\ ThreadsIdle
    /\ variant \in Variants

EitherNext ==
    \/ \E t \in Threads : variant = "inline" /\ ThreadStep(t)
    \/ \E t \in Threads : variant = "holder" /\ HolderStep(t)

EitherSpec == EitherInit /\ [][EitherNext]_vars

\* thread t returns from push_back in this step
Returns(t) == pc[t] # "call" /\ pc'[t] = "call"

\* capacity of the buffer the vector was constructed with
InitialCapacity == page_size \div SizeofT

\* C23: the two variants of the concurrent append cannot be told apart.
\* In both, a push_back call returns only after it has executed the store
\* into its reserved slot, and once every call has returned element_count
\* is the number of calls, the capacity covers them and every slot that was
\* reserved at or beyond the initial capacity holds the value of its call.
C23_VariantsEquivalent ==
    /\ [][ \A t \in Threads : Returns(t) => pc[t] = "ops_dec" ]_vars
    /\ [](AllReturned =>
            /\ element_count = TotalPushes
            /\ allocator.capacity >= TotalPushes
            /\ \A k \in DOMAIN reserved :
                  reserved[k].idx >= InitialCapacity =>
                      /\ reserved[k].idx \in DOMAIN mem
                      /\ mem[reserved[k].idx] = reserved[k].val)

\* ------------------------------------------------------------------------
\* Concurrent append: the resizer
\* ------------------------------------------------------------------------

\* thread t is between the lock_guard and the end of capacity_atomic.store
Resizing(t) == pc[t] \in { "grow", "resize", "publish" }

\* C24: a writer executes allocator.increase_capacity and the store to
\* capacity_atomic only while it holds the grow mutex, so at most one
\* writer is in them at a time; a writer that acquires the mutex finds the
\* capacity the previous resizer left and published.
C24_OneResizerAtATime ==
    /\ \A t \in Threads : Resizing(t) => mutex = t
    /\ Cardinality({ t \in Threads : Resizing(t) }) <= 1
    /\ \A t \in Threads : pc[t] = "grow" => allocator.capacity = capacity_atomic

\* a second writer that decided to resize holds the mutex after the first
\* one has grown the buffer and returned
C24_Witness ==
    \E t \in Threads :
        /\ pc[t] = "grow"
        /\ mutex = t
        /\ index[t] >= InitialCapacity
        /\ allocator.capacity > InitialCapacity
        /\ capacity_atomic = allocator.capacity

\* writer t has completed atomic_store_max(needed_capacity, index + 1) and
\* waits for the capacity to cover its index
Recorded(t) == pc[t] \in { "ops_dec_slow", "spin", "lock" }

\* the capacity the buffer has once the increase_capacity that thread t
\* enters in this step has returned
GrownTo(t) == IF pc'[t] = "resize" THEN new_capacity'[t] ELSE allocator.capacity

\* C25: needed_capacity never decreases.  The capacity a resizer computes
\* when it loads needed_capacity covers its own index and the index of
\* every writer that had completed its atomic_store_max by then; the buffer
\* is resized to exactly that capacity, and that capacity is published.
C25_GrowCoversRecordedDemand ==
    /\ [][ needed_capacity' >= needed_capacity ]_vars
    /\ [][ \A t \in Threads : (pc[t] = "grow" /\ pc'[t] # "grow") =>
              /\ GrownTo(t) >= index[t] + 1
              /\ \A u \in Threads \ {t} : Recorded(u) => GrownTo(t) >= index[u] + 1 ]_vars
    /\ [][ \A t \in Threads : (pc[t] = "resize" /\ pc'[t] = "publish" /\ ~crashed') =>
              allocator'.capacity = new_capacity[t] ]_vars
    /\ [][ \A t \in Threads : (pc[t] = "publish" /\ pc'[t] # "publish") =>
              /\ capacity_atomic' = allocator.capacity
              /\ capacity_atomic' >= index[t] + 1 ]_vars

\* a resizer has published a capacity that covers a spinning writer whose
\* index, recorded in needed_capacity, is above the resizer's own
C25_Witness ==
    \E t \in Threads : \E u \in Threads \ {t} :
        /\ pc[t] = "ops_inc"
        /\ depth[t] = 2
        /\ pc[u] = "spin"
        /\ index[u] > index[t]
        /\ needed_capacity = index[u] + 1
        /\ capacity_atomic >= needed_capacity

\* ------------------------------------------------------------------------
\* Allocator::increase_capacity on a buffer of any capacity: the caller
\* resizes a fresh vector to some size and then reserves
\* ------------------------------------------------------------------------

\* largest size the caller resizes the fresh vector to
MaxGrowFrom == 20

\* number of calls the reserving caller makes, the resize included
MaxGrowOps == 3

\* the arguments the caller passes to reserve
Needs == 0 .. MaxCapacity + 1

GrowNext ==
    \/ \E c \in 1 .. MaxGrowFrom : steps = 0 /\ ResizeTo(c)
    \/ \E n \in Needs : steps >= 1 /\ steps < MaxGrowOps /\ Reserve(n)

GrowSpec == Init /\ [][GrowNext]_vars

\* C26: increase_capacity(n), called through reserve(n), changes nothing
\* when capacity >= n.  Otherwise, when it returns, the new capacity is
\* c0 * 2^k for the smallest k >= 0 with c0 * 2^k >= n, where c0 is 16 if
\* the old capacity is at most 8 and the old capacity otherwise.  In both
\* cases capacity >= n afterwards, on every backend.
C26_IncreaseCapacityDoubles ==
    [][ ( /\ steps' # steps
          /\ last'.op = "reserve"
          /\ ~last'.threw
          /\ ~crashed' )
        => LET n  == last'.arg
               c0 == IF capacity <= 8 THEN 16 ELSE capacity
           IN  /\ capacity >= n => UNCHANGED << allocator, mem, file >>
               /\ capacity < n =>
                     \E k \in 0 .. SizeBits :
                        /\ capacity' = c0 * (2 ^ k)
                        /\ c0 * (2 ^ k) >= n
                        /\ \A j \in 0 .. k - 1 : c0 * (2 ^ j) < n
               /\ capacity' >= n ]_vars

\* reserve(19) has just grown a buffer of 9 elements to 36, in two doublings
C26_Witness ==
    /\ last.op = "reserve"
    /\ ~last.threw
    /\ ~crashed
    /\ last.arg = 19
    /\ capacity = 36
    /\ size = 9

\* ------------------------------------------------------------------------
\* A thread_safe vector driven by one thread, next to the serial vector
\* given the same calls
\* ------------------------------------------------------------------------

\* number of push_back calls the single thread makes
MaxSoloPushes == 34

\* MmappedVector<size_t, MallocAllocator<size_t>, true> vec8 and
\* MmappedVector<size_t, MmapAllocator<size_t>, true> vec10, before the loop
SoloInit ==
    /\ \E a \in { MallocAllocator, MmapAllocator } : ConcConstructed(a)
    /\ ThreadsIdle
    /\ variant = "inline"

\* the loop of test_vector_correctness, run by the main thread, calls
\* push_back(i): element_count.fetch_add
SoloCall ==
    /\ ~crashed
    /\ UNCHANGED << callVars, views >>
    /\ pc[1] = "call"
    /\ i[1] < MaxSoloPushes
    /\ index' = [index EXCEPT ![1] = FetchAddResult(element_count)]
    /\ element_count' = (element_count + 1) % SizeMod
    /\ value' = [value EXCEPT ![1] = i[1]]
    /\ reserved' = Append(reserved, [idx |-> FetchAddResult(element_count), val |-> i[1]])
    /\ depth' = [depth EXCEPT ![1] = 1]
    /\ pc' = [pc EXCEPT ![1] = "ops_inc"]
    /\ UNCHANGED << allocVars, atomicVars, current, new_capacity, i, crashed >>

SoloNext ==
    \/ SoloCall
    \/ OpsInc(1)
    \/ LoadCap(1)
    \/ Store(1)
    \/ OpsDec(1)
    \/ MaxLoad(1)
    \/ MaxCas(1)
    \/ OpsDecSlow(1)
    \/ Lock(1)
    \/ Grow(1)
    \/ Resize(1)
    \/ Publish(1)

SoloSpec == SoloInit /\ [][SoloNext]_vars

\* the constructor the vector was built with
FreshAllocator(kind) == IF kind = "Malloc" THEN MallocAllocator ELSE MmapAllocator

\* the serial push_back applied to serial vector s = [a, m, count]: the
\* vectors it can leave when it returns
SerialStored(s, v) ==
    UNION { { [a |-> r.a, m |-> w.m, count |-> (s.count + 1) % SizeMod] :
                w \in { y \in StoreOutcomes(r.a, r.m, r.f, s.count, v) : ~y.dead } } :
            r \in { x \in GrowForAppend(s.a, s.m, NoFile, s.count) : ~x.threw /\ ~x.dead } }

\* the serial vectors of allocator kind after push_back of calls[1].val, calls[2].val, ...
RECURSIVE SerialRun(_, _)
SerialRun(kind, calls) ==
    IF calls = << >>
        THEN { [a |-> FreshAllocator(kind), m |-> FreshMem(FreshAllocator(kind)), count |-> 0] }
        ELSE UNION { SerialStored(s, calls[Len(calls)].val) :
                     s \in SerialRun(kind, SubSeq(calls, 1, Len(calls) - 1)) }

\* C27: after each push_back call of a thread_safe vector that a single
\* thread drives, size(), capacity() and the elements are those of a
\* serial vector given the same calls, the published capacity is that
\* capacity, and operations_in_progress is 0.
C27_SoloRefinesSerial ==
    pc[1] = "call" =>
        /\ ~crashed
        /\ operations_in_progress = 0
        /\ \E s \in SerialRun(allocator.kind, reserved) :
              /\ size = s.count
              /\ capacity = s.a.capacity
              /\ capacity_atomic = s.a.capacity
              /\ \A k \in 0 .. size - 1 : k \in DOMAIN mem /\ mem[k] = s.m[k]

\* the heap vector after the single thread took the slow path twice
C27_Witness ==
    /\ pc[1] = "call"
    /\ allocator.kind = "Malloc"
    /\ size = 2 * MinCapacity + 1
    /\ capacity = 4 * MinCapacity
    /\ mem[size - 1] = 2 * MinCapacity
    /\ operations_in_progress = 0

\* ------------------------------------------------------------------------
\* Concurrent append: the fast path
\* ------------------------------------------------------------------------

\* thread t is inside a push_back call that has not entered the slow path
\* before: it is about to increment operations_in_progress, load the
\* capacity, store, or decrement
OnFastPath(t) == depth[t] = 1 /\ pc[t] \in { "ops_inc", "load_cap", "store", "ops_dec" }

\* C28: a push_back whose index is below the capacity it loads takes five
\* steps of its own thread: the fetch_add on element_count, the increment
\* of operations_in_progress, the load of capacity_atomic, the store and
\* the decrement, after which it has returned.  As long as the process is
\* alive each of these steps can be taken at once, whatever the other
\* threads are doing; the call never holds or waits for the grow mutex and
\* never enters the spin loop.
C28_FastPathWaitFree ==
    /\ [](\A t \in Threads :
            /\ (OnFastPath(t) /\ ~crashed) => ENABLED ThreadStep(t)
            /\ OnFastPath(t) => mutex # t)
    /\ [][ \A t \in Threads : (depth[t] <= 1 /\ pc'[t] # pc[t]) =>
              /\ pc[t] = "call" => (pc'[t] = "ops_inc" /\ depth'[t] = 1 /\ mutex' = mutex)
              /\ pc[t] = "ops_inc" => (pc'[t] = "load_cap" /\ mutex' = mutex)
              /\ (pc[t] = "load_cap" /\ index[t] < capacity_atomic) =>
                    (pc'[t] = "store" /\ mutex' = mutex)
              /\ pc[t] = "store" => (pc'[t] = "ops_dec" /\ mutex' = mutex)
              /\ pc[t] = "ops_dec" =>
                    (pc'[t] = "call" /\ i'[t] = i[t] + 1 /\ mutex' = mutex) ]_vars

\* a writer on the fast path has stored its value while another thread
\* holds the grow mutex
C28_Witness ==
    \E t \in Threads : \E u \in Threads \ {t} :
        /\ pc[t] = "ops_dec"
        /\ depth[t] = 1
        /\ ~crashed
        /\ mutex = u
        /\ Resizing(u)

\* ------------------------------------------------------------------------
\* Concurrent append: which buffer pointer a writer stores through
\* ------------------------------------------------------------------------

\* C29: a writer whose index lies at or beyond the initial capacity passed
\* the test index < capacity only by loading a capacity that a grow
\* published; when it executes its store it is guaranteed to observe the
\* buffer pointer that grow installed (the load of capacity_atomic
\* synchronises with the store that published it), so it never stores
\* through the pre-grow address.
C29_WriterSeesGrownBuffer ==
    [][ \A t \in Threads :
          ( /\ pc[t] = "store"
            /\ pc'[t] = "ops_dec"
            /\ index[t] >= InitialCapacity )
          => views.seen[t] = views.epoch ]_vars

\* ------------------------------------------------------------------------
\* Serial vector: resize
\* ------------------------------------------------------------------------

\* C30: resize(n) on a serial vector that satisfies the invariants of the
\* data model, for any n the system has room for (below, equal to or above
\* the capacity, 0 included), returns and leaves size() == n and
\* capacity() >= n, with the first min(old size, n) elements as they were.
C30_ResizeSetsSize ==
    [][ ( /\ steps' # steps
          /\ last'.op = "resize"
          /\ last'.arg <= MaxCapacity
          /\ WellFormed )
        => ( /\ ~last'.threw
             /\ ~crashed'
             /\ size' = last'.arg
             /\ capacity' >= last'.arg
             /\ \A k \in 0 .. (IF size < last'.arg THEN size ELSE last'.arg) - 1 :
                   k \in DOMAIN mem' /\ mem'[k] = mem[k] ) ]_vars

\* ------------------------------------------------------------------------
\* shrink_to_fit of the serial vector
\* ------------------------------------------------------------------------

\* C31: shrink_to_fit() on a serial vector that satisfies the invariants of
\* the data model returns and leaves size() and the elements below size()
\* as they were, with capacity() == size() on every backend and, for
\* FileMap, a file of size() * sizeof(T) bytes; size() == 0 included.
C31_ShrinkToFitTrims ==
    [][ ( /\ steps' # steps
          /\ last'.op = "shrink_to_fit"
          /\ WellFormed )
        => ( /\ ~last'.threw
             /\ ~crashed'
             /\ size' = size
             /\ capacity' = size'
             /\ \A k \in 0 .. size - 1 : k \in DOMAIN mem' /\ mem'[k] = mem[k]
             /\ allocator'.kind = "File" => file'.len = size' * SizeofT ) ]_vars

\* ------------------------------------------------------------------------
\* the re-entrant call of the resizer
\* ------------------------------------------------------------------------

\* C32: the call store_at_index(value, index) that the resizer makes while
\* it holds the grow mutex takes the fast path: during that call the
\* published capacity is above the index of the caller, the caller never
\* reaches the slow path or the mutex again, and the recursion is never
\* deeper than this one call.
C32_ReentrantCallTakesFastPath ==
    \A t \in Threads :
        /\ depth[t] <= 2
        /\ depth[t] = 2 => /\ mutex = t
                           /\ index[t] < capacity_atomic
                           /\ pc[t] \in { "ops_inc", "load_cap", "store", "ops_dec" }

\* a resizer is inside its re-entrant call and about to store its value
C32_Witness ==
    \E t \in Threads :
        /\ depth[t] = 2
        /\ pc[t] = "store"
        /\ mutex = t
        /\ index[t] >= InitialCapacity

\* ------------------------------------------------------------------------
\* the counter of operations in progress
\* ------------------------------------------------------------------------

\* C33: in concurrent mode operations_in_progress equals the number of
\* threads that have executed its fetch_add and not yet the matching
\* fetch_sub; so it is never below 0 nor above the number of threads, and
\* it is 0 when no push_back is in flight.
C33_OperationsInProgressCounts ==
    LET Counted == { t \in Threads :
                       pc[t] \in { "load_cap", "store", "ops_dec",
                                   "max_load", "max_cas", "ops_dec_slow" } }
    IN  /\ operations_in_progress = Cardinality(Counted)
        /\ 0 <= operations_in_progress
        /\ operations_in_progress <= NThreads
        /\ Quiescent => operations_in_progress = 0

\* every thread is between its fetch_add and its fetch_sub, one of them on
\* the slow path
C33_Witness ==
    /\ operations_in_progress = NThreads
    /\ \A t \in Threads : pc[t] \in { "load_cap", "store", "ops_dec",
                                      "max_load", "max_cas", "ops_dec_slow" }
    /\ \E t \in Threads : pc[t] = "ops_dec_slow"

\* ------------------------------------------------------------------------
\* Allocator::increase_capacity for every capacity_needed that size_t holds
\* ------------------------------------------------------------------------

\* every value of size_t
AnyNeed == 0 .. SizeMod - 1

WideNext ==
    \/ \E c \in 1 .. MaxGrowFrom : steps = 0 /\ ResizeTo(c)
    \/ \E n \in AnyNeed : steps = 1 /\ Reserve(n)

WideSpec == Init /\ [][WideNext]_vars

\* C34: increase_capacity(n), called through reserve(n) on a vector that
\* satisfies the invariants of the data model, terminates for every n that
\* size_t holds, n above 2^(w-1) included: the doubling loop reaches a
\* capacity >= n and does not wrap modulo 2^w.
C34_IncreaseCapacityTerminates ==
    [][ ( /\ steps' # steps
          /\ last'.op = "reserve"
          /\ WellFormed )
        => ( /\ ~crashed'
             /\ NewCapacity(capacity, last'.arg) # Hang
             /\ capacity < last'.arg => NewCapacity(capacity, last'.arg) >= last'.arg ) ]_vars

\* ------------------------------------------------------------------------
\* A live FileMap vector overwritten by move assignment from a second
\* FileMap vector that was constructed on another path
\* ------------------------------------------------------------------------

\* number of calls the caller makes before and with the move assignment
MaxAssignOps == 5

\* MmapFileVector<T> other(other_path): a second vector on a new file; its
\* descriptor is the next free one
OpenOther ==
    /\ ~crashed
    /\ moved = NoVector
    /\ moved' = [a     |-> [MmapFileOpen(NoFile).a EXCEPT !.file_descriptor = NewFd + 1],
                 m     |-> MmapFileOpen(NoFile).m,
                 count |-> get_backing_size(MmapFileOpen(NoFile).a)]
    /\ open_fds' = open_fds \cup { NewFd + 1 }
    /\ Called("open_other", 0, FALSE)
    /\ UNCHANGED << allocVars, element_count, atomicVars, threadVars, crashed, seed, variant >>

\* the first vector is constructed and has not been assigned to yet
Assignable ==
    /\ steps < MaxAssignOps
    /\ last.op \notin { "start", "move_assign" }
    /\ ~(last.op = "open" /\ last.threw)

AssignNext ==
    \/ Open
    \/ \E v \in Values : Assignable /\ PushBack(v)
    \/ Assignable /\ PopBack
    \/ Assignable /\ OpenOther
    \/ Assignable /\ MoveAssign

AssignSpec == FileInit /\ [][AssignNext]_vars

\* C35: a move assignment onto a serial FileMap vector that holds n >= 1
\* live elements and satisfies the invariants of the data model returns and
\* leaves the previous file of the vector closed, n * sizeof(T) bytes
\* long, with its first n elements as they were in the vector: what a drop
\* of the vector would have left.
C35_MoveAssignClosesLikeDrop ==
    [][ ( /\ steps' # steps
          /\ last'.op = "move_assign"
          /\ allocator.kind = "File"
          /\ WellFormed
          /\ size >= 1 )
        => ( /\ ~crashed'
             /\ allocator.file_descriptor \notin open_fds'
             /\ file'.len = size * SizeofT
             /\ \A k \in 0 .. size - 1 :
                   k \in DOMAIN file'.data /\ file'.data[k] = mem[k] ) ]_vars

\* ------------------------------------------------------------------------
\* The lifetime of the two vectors of a move: vec, vec2(std::move(vec)),
\* vec = std::move(vec2), and the destructors at the end of the scope
\* ------------------------------------------------------------------------

\* number of calls the caller makes before the vectors go out of scope
MaxOwnerOps == 5

\* ~MmappedVector of the second vector: allocator.sync(element_count), then
\* the destructor of its allocator
DropOther ==
    /\ ~crashed
    /\ moved # NoVector
    /\ \E r \in DestroyOutcomes(Sync(moved.a, moved.count), moved.m, file) :
          /\ moved' = [a |-> r.a, m |-> r.m, count |-> moved.count]
          /\ file' = r.f
          /\ crashed' = r.dead
          /\ Called("drop_other", moved.count, FALSE)
          /\ open_fds' = IF r.dead THEN open_fds
                         ELSE Closed(open_fds, moved.a.file_descriptor)
    /\ UNCHANGED << allocator, mem, element_count, atomicVars, threadVars, seed, variant >>

\* both vectors are in scope and the caller may make another call
InScope == steps < MaxOwnerOps /\ last.op \notin { "drop_other", "drop" }

\* the end of the scope: vec2, declared last, is destroyed before vec
OwnerNext ==
    \/ \E v \in Values : InScope /\ allocator.ptr = "valid" /\ PushBack(v)
    \/ InScope /\ MoveConstruct
    \/ InScope /\ MoveAssign
    \/ last.op \notin { "drop_other", "drop" } /\ DropOther
    \/ last.op # "drop" /\ (moved = NoVector \/ last.op = "drop_other") /\ Drop

OwnerSpec == Init /\ [][OwnerNext]_vars

\* C36: across move construction and move assignment of a serial vector
\* the buffer (heap block, mapping, file descriptor) has at most one owner,
\* so it is released once: the drop of a moved-from vector releases
\* nothing and leaves the file, the descriptors and the buffer of the other
\* vector as they were, and once both vectors are dropped nothing is held.
C36_BufferReleasedOnce ==
    [][ steps' # steps =>
          /\ ~(allocator'.ptr = "valid" /\ moved'.a.ptr = "valid")
          /\ ~(allocator'.file_descriptor # -1
                 /\ moved'.a.file_descriptor = allocator'.file_descriptor)
          /\ (last'.op = "drop" /\ allocator.ptr = "null") =>
                /\ ~crashed'
                /\ UNCHANGED << file, moved, open_fds >>
          /\ (last'.op = "drop_other" /\ moved.a.ptr = "null") =>
                /\ ~crashed'
                /\ UNCHANGED << file, allocator, mem, open_fds >>
          /\ (last'.op = "drop" /\ ~crashed') =>
                /\ allocator'.ptr = "null"
                /\ moved'.a.ptr = "null"
                /\ open_fds' = { } ]_vars

\* a FileMap vector was moved to a second vector and both were dropped: the
\* drop of the moved-from one left the file as the drop of the other had cut it
C36_Witness ==
    /\ last.op = "drop"
    /\ ~crashed
    /\ allocator.kind = "File"
    /\ moved # NoVector
    /\ moved.count = 2
    /\ file.len = 2 * SizeofT
    /\ file.data[0] = 1
    /\ file.data[1] = 2
    /\ open_fds = { }

\* ------------------------------------------------------------------------
\* the file of a rejected open
\* ------------------------------------------------------------------------

\* C37: when the constructor of a FileMap allocator refuses a file whose
\* length is not a multiple of sizeof(T), the length and the contents of
\* the file are as they were before the call: the check of the length
\* comes before every ftruncate.
C37_RejectedFileUntouched ==
    [][ ( /\ steps' # steps
          /\ last'.op = "open"
          /\ last'.threw
          /\ last'.ret \notin { "open", "fstat" }
          /\ file.len % SizeofT # 0 )
        => ( /\ file'.len = file.len
             /\ file'.data = file.data ) ]_vars

\* a file of one element and one byte, shorter than the initial capacity,
\* has just been refused
C37_Witness ==
    /\ last.op = "open"
    /\ last.threw
    /\ last.ret = "none"
    /\ file = OnDisk(SizeofT + 1, seed)
    /\ file.len % SizeofT # 0
    /\ allocator.ptr = "null"

\* ------------------------------------------------------------------------
\* A FileMap vector whose process ends while the file is mapped, and the
\* next run of the program on the same file
\* ------------------------------------------------------------------------

\* the process ends without running the destructor: the mapping and the
\* descriptor go with the process, the file stays as long as the mapping was
Abandon ==
    /\ ~crashed
    /\ allocator.kind = "File"
    /\ allocator.ptr = "valid"
    /\ crashed' = TRUE
    /\ open_fds' = { }
    /\ Called("abandon", element_count, FALSE)
    /\ UNCHANGED << allocVars, element_count, atomicVars, threadVars, seed, moved, variant >>

\* the next run of the program constructs a FileMap vector on the file the
\* abandoned one left: MmapFileAllocator(file_name), element_count(allocator.get_backing_size())
Recover ==
    /\ last.op = "abandon"
    /\ Leaves(MmapFileOpen(file))
    /\ element_count' = get_backing_size(MmapFileOpen(file).a)
    /\ Called("recover", last.arg, MmapFileOpen(file).threw)
    /\ open_fds' = MmapFileCtor(file, "none", { }).fds
    /\ UNCHANGED << atomicVars, threadVars, seed, moved, variant >>

CrashNext ==
    \/ Open
    \/ \E v \in Values : Live /\ PushBack(v)
    \/ Live /\ PopBack
    \/ Live /\ Drop
    \/ Live /\ Abandon
    \/ steps < MaxFileOps /\ Reopen
    \/ steps < MaxFileOps /\ Recover

CrashSpec == FileInit /\ [][CrashNext]_vars

\* C38 as stated: every open of a FileMap vector that returns yields
\* size() == file length / sizeof(T) and capacity() == max(size(), 16); a
\* vector of c elements abandoned while its file is as long as its mapping
\* reopens with size() == the capacity it had, and not with size() == c.
C38_AbandonedFileLosesCount ==
    [][ ( /\ steps' # steps
          /\ last'.op \in { "open", "reopen", "recover" }
          /\ ~last'.threw )
        => ( /\ size' = file.len \div SizeofT
             /\ capacity' = Max(size', MinCapacity)
             /\ (last'.op = "recover" /\ WellFormed) =>
                   /\ size' = capacity
                   /\ size' # last'.arg ) ]_vars

\* C38, amended: every open of a FileMap vector that returns yields
\* size() == file length / sizeof(T) and capacity() == max(size(), 16); a
\* vector of c elements abandoned while its file is as long as its mapping
\* reopens with size() == the capacity it had, which is c exactly when the
\* buffer was full (c == capacity) and above c otherwise.
C38_AbandonedFileReopensAtCapacity ==
    [][ ( /\ steps' # steps
          /\ last'.op \in { "open", "reopen", "recover" }
          /\ ~last'.threw )
        => ( /\ size' = file.len \div SizeofT
             /\ capacity' = Max(size', MinCapacity)
             /\ (last'.op = "recover" /\ WellFormed) =>
                   /\ size' = capacity
                   /\ size' >= last'.arg
                   /\ size' = last'.arg <=> last'.arg = capacity ) ]_vars

\* a vector of two elements with a capacity of sixteen was abandoned and
\* the next run finds sixteen elements
C38_Witness ==
    /\ last.op = "recover"
    /\ ~last.threw
    /\ last.arg = 2
    /\ size = MinCapacity
    /\ capacity = MinCapacity
    /\ file.len = MinCapacity * SizeofT

====
